---- MODULE Spec2Model ----
(***************************************************************************)
(* Talent Match Intelligence (src/app.py).                                 *)
(*                                                                         *)
(* The state is the database snapshot the application reads (the tables    *)
(* named in the SQL of build_match_sql), the three sidebar inputs and the  *)
(* data frame of the last run.  The SQL text is modelled CTE by CTE with   *)
(* PostgreSQL's semantics: relations are sets of rows (every relation used *)
(* here has a key, which the model keeps in the row), NULL is a value of   *)
(* its own that arithmetic and comparisons propagate, aggregates skip NULL *)
(* inputs, and numbers are exact rationals <<numerator, denominator>>.     *)
(***************************************************************************)
EXTENDS Integers, Sequences, FiniteSets, TLC

(***************************************************************************)
(* Bounds of the model.                                                    *)
(***************************************************************************)
NEmp == 3

(***************************************************************************)
(* Program constants.                                                      *)
(***************************************************************************)
SliderMin == 1
SliderMax == 5
LIMIT == 200

VARIABLES
    employees,                \* table employees: employee_id, fullname, position_id
    dim_positions,            \* table dim_positions: position_id, name
    performance_yearly,       \* table performance_yearly: employee_id, year, rating
    competencies_yearly,      \* table competencies_yearly: employee_id, pillar_code, year, score
    profiles_psych,           \* table profiles_psych: employee_id, iq, gtq, tiki, faxtor, pauli, mbti, disc
    papi_scores,              \* table papi_scores: employee_id, scale_code, score
    talent_variables_mapping, \* table talent_variables_mapping: tv_name, tgv_name, tv_weight
    talent_group_weights,     \* table talent_group_weights: tgv_name, tgv_weight
    min_rating,               \* the sidebar slider
    selected_position_id,     \* the sidebar selectbox, NULL for "(None)"
    manual_selected,          \* the sidebar multiselect: the labels picked, in picking order
    run_button,               \* whether this script run was started by the button
    result_df                 \* the data frame of this script run

tables == <<employees, dim_positions, performance_yearly, competencies_yearly,
            profiles_psych, papi_scores, talent_variables_mapping, talent_group_weights>>
sidebar == <<min_rating, selected_position_id, manual_selected>>
vars == <<tables, sidebar, run_button, result_df>>

(***************************************************************************)
(* SQL values.  NULL is the empty tuple and a non-null value v is <<v>>,   *)
(* so that NULL is comparable with every value.  A number is a rational    *)
(* <<n, d>> in lowest terms with d > 0; a text is a sequence of character  *)
(* codes.                                                                  *)
(***************************************************************************)
NULL == <<>>
IsNull(x) == x = NULL
Val(v) == <<v>>

Abs(n) == IF n < 0 THEN -n ELSE n

RECURSIVE GCD(_, _)
GCD(a, b) == IF b = 0 THEN a ELSE GCD(b, a % b)

Rat(n, d) ==
    LET s == IF d < 0 THEN -1 ELSE 1
        g == GCD(Abs(n), Abs(d))
    IN  <<(s * n) \div g, (s * d) \div g>>

RAdd(a, b) == Rat(a[1] * b[2] + b[1] * a[2], a[2] * b[2])
RSub(a, b) == Rat(a[1] * b[2] - b[1] * a[2], a[2] * b[2])
RMul(a, b) == Rat(a[1] * b[1], a[2] * b[2])
RDiv(a, b) == Rat(a[1] * b[2], a[2] * b[1])
RLess(a, b) == a[1] * b[2] < b[1] * a[2]
Int2Rat(i) == <<i, 1>>
Floor(a) == a[1] \div a[2]
Ceil(a) == -((-a[1]) \div a[2])

\* x::numeric
Numeric(x) == IF IsNull(x) THEN NULL ELSE Val(Int2Rat(x[1]))
\* the SQL operators +, -, *, / : NULL if an operand is
NMul(a, b) == IF IsNull(a) \/ IsNull(b) THEN NULL ELSE Val(RMul(a[1], b[1]))
NSub(a, b) == IF IsNull(a) \/ IsNull(b) THEN NULL ELSE Val(RSub(a[1], b[1]))
NDiv(a, b) == IF IsNull(a) \/ IsNull(b) THEN NULL ELSE Val(RDiv(a[1], b[1]))
\* NULLIF(a, 0)
NULLIF0(a) == IF IsNull(a) THEN NULL ELSE IF a[1][1] = 0 THEN NULL ELSE a
\* a = b in a WHEN or WHERE: not true when an operand is NULL
SqlEqTrue(a, b) == ~IsNull(a) /\ ~IsNull(b) /\ a = b

\* SUM over the rows of T, a set of <<row key, value>>: NULL inputs are skipped, and
\* the sum of no non-null input is NULL
RECURSIVE SUM(_)
SUM(T) ==
    IF T = {} THEN NULL
    ELSE LET t == CHOOSE t \in T : TRUE
             rest == SUM(T \ {t})
         IN  IF IsNull(t[2]) THEN rest
             ELSE IF IsNull(rest) THEN t[2]
             ELSE Val(RAdd(t[2][1], rest[1]))

\* the non-null values of T, a set of <<row key, value>>, in ascending order
RECURSIVE SortedValues(_)
SortedValues(T) ==
    LET N == {t \in T : ~IsNull(t[2])}
    IN  IF N = {} THEN <<>>
        ELSE LET m == CHOOSE t \in N : \A u \in N : ~RLess(u[2][1], t[2][1])
             IN  <<m[2][1]>> \o SortedValues(N \ {m})

\* PERCENTILE_DISC(0.5) WITHIN GROUP (ORDER BY value), which the query does not use:
\* the first value whose cumulative share reaches one half, a stored value always
PERCENTILE_DISC_50(T) ==
    LET s == SortedValues(T)
        N == Len(s)
    IN  IF N = 0 THEN NULL ELSE Val(s[(N + 1) \div 2])

\* PERCENTILE_CONT(0.5) WITHIN GROUP (ORDER BY value): with N non-null inputs the
\* row number is RN = 1 + 0.5 * (N - 1); the result is the value at RN when RN is
\* whole, and else interpolates between the rows floor(RN) and ceil(RN)
PERCENTILE_CONT_50(T) ==
    LET s == SortedValues(T)
        N == Len(s)
        RN == Rat(N + 1, 2)
        FRN == Floor(RN)
        CRN == Ceil(RN)
    IN  IF N = 0 THEN NULL
        ELSE IF FRN = CRN THEN Val(s[FRN])
        ELSE Val(RAdd(RMul(RSub(Int2Rat(CRN), RN), s[FRN]),
                      RMul(RSub(RN, Int2Rat(FRN)), s[CRN])))

\* texts: sequences of character codes
SPACE == 32
UpperChar(c) == IF c >= 97 /\ c <= 122 THEN c - 32 ELSE c
RECURSIVE LTrim(_)
LTrim(s) == IF s # <<>> /\ Head(s) = SPACE THEN LTrim(Tail(s)) ELSE s
RECURSIVE RTrim(_)
RTrim(s) == IF s # <<>> /\ s[Len(s)] = SPACE THEN RTrim(SubSeq(s, 1, Len(s) - 1)) ELSE s
\* UPPER(TRIM(x))
UPPER_TRIM(x) ==
    IF IsNull(x) THEN NULL
    ELSE LET t == RTrim(LTrim(x[1])) IN Val([i \in 1..Len(t) |-> UpperChar(t[i])])

RECURSIVE TextLess(_, _)
TextLess(a, b) ==
    IF b = <<>> THEN FALSE
    ELSE IF a = <<>> THEN TRUE
    ELSE IF Head(a) # Head(b) THEN Head(a) < Head(b)
    ELSE TextLess(Tail(a), Tail(b))

\* MODE() WITHIN GROUP (ORDER BY value) over T, a set of <<row key, value>>: the most
\* frequent non-null value, the first in sort order among equally frequent ones;
\* NULL when there is no non-null input
MODE(T) ==
    LET N == {t \in T : ~IsNull(t[2])}
        vals == {t[2] : t \in N}
        freq(v) == Cardinality({t \in N : t[2] = v})
        best == {v \in vals : \A w \in vals : freq(w) <= freq(v)}
    IN  IF N = {} THEN NULL
        ELSE CHOOSE v \in best : \A w \in best : ~TextLess(w[1], v[1])

(***************************************************************************)
(* build_match_sql: the parameters and the CTEs of the query, each a       *)
(* relation computed from the tables and the three arguments.              *)
(***************************************************************************)

\* label.split(" - ")[0] of a label employee_id + " - " + fullname
LabelId(label) == label[1]
\* manual_ids, the first argument of run_match_query
manual_ids == [i \in DOMAIN manual_selected |-> LabelId(manual_selected[i])]

\* params: ARRAY[...]::text[] of the ids (empty for no id), the position or NULL,
\* the minimum rating
params ==
    [manual_hp |-> manual_ids,
     role_position_id |-> selected_position_id,
     min_hp_rating |-> min_rating]

\* SELECT unnest(manual_hp): one row per array element
manual_set == {params.manual_hp[i] : i \in DOMAIN params.manual_hp}

\* employees JOIN performance_yearly USING (employee_id) JOIN params ON TRUE
role_set ==
    LET p == params
    IN  {e.employee_id : e \in
            {e \in employees :
                \E py \in performance_yearly :
                    /\ py.employee_id = e.employee_id
                    /\ py.rating >= p.min_hp_rating
                    /\ ~IsNull(p.role_position_id)
                    /\ SqlEqTrue(Val(e.position_id), p.role_position_id)}}

benchmark_set == manual_set \cup role_set

fallback_benchmark ==
    LET p == params
    IN  {py.employee_id : py \in {py \in performance_yearly : py.rating >= p.min_hp_rating}}

\* benchmark_set UNION fallback_benchmark, without the NOT EXISTS the query has
final_bench_unguarded == benchmark_set \cup fallback_benchmark

\* benchmark_set UNION (fallback_benchmark WHERE NOT EXISTS (SELECT 1 FROM benchmark_set))
final_bench ==
    LET bs == benchmark_set
    IN  bs \cup (IF bs = {} THEN fallback_benchmark ELSE {})

\* (SELECT MAX(year) FROM competencies_yearly): NULL for an empty table
MaxYear(competencies) ==
    IF competencies = {} THEN NULL
    ELSE Val(CHOOSE y \in {c.year : c \in competencies} :
                \A c \in competencies : c.year <= y)

latest == MaxYear(competencies_yearly)

PsychColumns == {"iq", "gtq", "tiki", "faxtor", "pauli"}

\* the subquery x of baseline_numeric: the latest competency scores and the five
\* psychometric columns of the benchmark employees (employee_id is kept as the
\* identity of the row: x is a UNION ALL, equal scores are separate rows)
\* (written over the tables it reads, for the benchmark fb and the latest year l)
BaselineNumericX(competencies, profiles, fb, l) ==
    {[employee_id |-> c.employee_id, tv_name |-> c.pillar_code, score |-> Numeric(c.score)] :
        c \in {c \in competencies : SqlEqTrue(Val(c.year), l) /\ c.employee_id \in fb}}
    \cup
    {[employee_id |-> pc[1].employee_id, tv_name |-> pc[2], score |-> Numeric(pc[1][pc[2]])] :
        pc \in {p \in profiles : p.employee_id \in fb} \X PsychColumns}

baseline_numeric_x ==
    LET fb == final_bench
        l == latest
    IN  BaselineNumericX(competencies_yearly, profiles_psych, fb, l)

\* PERCENTILE_CONT(0.5) WITHIN GROUP (ORDER BY score) ... FROM x GROUP BY tv_name
BaselineNumeric(x) ==
    {[tv_name |-> tv,
      baseline_score |->
          PERCENTILE_CONT_50({<<r.employee_id, r.score>> :
                                 r \in {r \in x : r.tv_name = tv}})] :
        tv \in {r.tv_name : r \in x}}

baseline_numeric ==
    LET x == baseline_numeric_x
    IN  BaselineNumeric(x)

all_numeric_scores ==
    LET l == latest
    IN
    {[employee_id |-> c.employee_id, tv_name |-> c.pillar_code, user_score |-> Numeric(c.score)] :
        c \in {c \in competencies_yearly : SqlEqTrue(Val(c.year), l)}}
    \cup
    {[employee_id |-> pc[1].employee_id, tv_name |-> pc[2], user_score |-> Numeric(pc[1][pc[2]])] :
        pc \in profiles_psych \X PsychColumns}

\* (user_score / NULLIF(baseline_score, 0)) * 100
ForwardMatch(user_score, baseline_score) ==
    NMul(NDiv(user_score, NULLIF0(baseline_score)), Val(Int2Rat(100)))

numeric_tv ==
    {[employee_id |-> j[1].employee_id,
      tv_name |-> j[2].tv_name,
      baseline_score |-> j[2].baseline_score,
      user_score |-> j[1].user_score,
      tv_match_rate |-> ForwardMatch(j[1].user_score, j[2].baseline_score)] :
        j \in LET sc == all_numeric_scores
                  bn == baseline_numeric
              IN  {j \in sc \X bn : j[1].tv_name = j[2].tv_name}}

reverse_list == {"Papi_I", "Papi_K", "Papi_Z", "Papi_T"}

\* papi_scores JOIN final_bench LEFT JOIN reverse_list GROUP BY scale_code (written
\* over the table it reads, for the benchmark fb)
BaselinePapi(papi, fb) ==
    LET joined == {ps \in papi : ps.employee_id \in fb}
    IN  {[tv_name |-> sc,
          baseline_score |->
              PERCENTILE_CONT_50({<<ps.employee_id, Numeric(ps.score)>> :
                                     ps \in {ps \in joined : ps.scale_code = sc}}),
          is_reverse |-> sc \in reverse_list] :
            sc \in {ps.scale_code : ps \in joined}}

baseline_papi ==
    LET fb == final_bench
    IN  BaselinePapi(papi_scores, fb)

\* a rate that falls with the distance from the baseline on either side, which the
\* query does not compute: (baseline - |user - baseline|) / baseline * 100
ReverseMatchByDistance(user_score, baseline_score) ==
    LET d == NSub(user_score, baseline_score)
        dist == IF IsNull(d) THEN NULL
                ELSE IF RLess(d[1], Int2Rat(0)) THEN NSub(Val(Int2Rat(0)), d) ELSE d
    IN  NMul(NDiv(NSub(baseline_score, dist), NULLIF0(baseline_score)), Val(Int2Rat(100)))

\* ((2 * baseline_score - score) / NULLIF(baseline_score, 0)) * 100
ReverseMatch(user_score, baseline_score) ==
    NMul(NDiv(NSub(NMul(Val(Int2Rat(2)), baseline_score), user_score),
              NULLIF0(baseline_score)),
         Val(Int2Rat(100)))

papi_tv ==
    {[employee_id |-> j[1].employee_id,
      tv_name |-> j[2].tv_name,
      baseline_score |-> j[2].baseline_score,
      user_score |-> Numeric(j[1].score),
      tv_match_rate |->
          IF j[2].is_reverse
          THEN ReverseMatch(Numeric(j[1].score), j[2].baseline_score)
          ELSE ForwardMatch(Numeric(j[1].score), j[2].baseline_score)] :
        j \in LET bp == baseline_papi
              IN  {j \in papi_scores \X bp : j[1].scale_code = j[2].tv_name}}

CatColumns == {"mbti", "disc"}

\* one row per attribute, whatever the join holds: an aggregate without GROUP BY
baseline_cat ==
    LET fb == final_bench
        joined == {p \in profiles_psych : p.employee_id \in fb}
    IN  {[tv_name |-> col,
          baseline_value |-> MODE({<<p.employee_id, UPPER_TRIM(p[col])>> : p \in joined})] :
            col \in CatColumns}

\* CASE WHEN (tv_name = 'mbti' AND UPPER(TRIM(mbti)) = baseline_value)
\*        OR (tv_name = 'disc' AND UPPER(TRIM(disc)) = baseline_value)
\* THEN 100 ELSE 0 END
CategoricalMatch(p, bc) ==
    IF \/ (bc.tv_name = "mbti" /\ SqlEqTrue(UPPER_TRIM(p.mbti), bc.baseline_value))
       \/ (bc.tv_name = "disc" /\ SqlEqTrue(UPPER_TRIM(p.disc), bc.baseline_value))
    THEN Val(Int2Rat(100))
    ELSE Val(Int2Rat(0))

categorical_tv ==
    {[employee_id |-> j[1].employee_id,
      tv_name |-> j[2].tv_name,
      baseline_score |-> Val(Int2Rat(1)),
      user_score |-> Val(Int2Rat(1)),
      tv_match_rate |-> CategoricalMatch(j[1], j[2])] :
        j \in LET bc == baseline_cat IN profiles_psych \X bc}

all_tv == numeric_tv \cup papi_tv \cup categorical_tv

tv_map == talent_variables_mapping

\* all_tv JOIN tv_map USING (tv_name)
tgv_joined ==
    {[employee_id |-> j[1].employee_id,
      tv_name |-> j[1].tv_name,
      tgv_name |-> j[2].tgv_name,
      tv_match_rate |-> j[1].tv_match_rate,
      tv_weight |-> j[2].tv_weight] :
        j \in LET a == all_tv
                  m == tv_map
              IN  {j \in a \X m : j[1].tv_name = j[2].tv_name}}

\* SUM(tv_match_rate * tv_weight) / SUM(tv_weight) of one group of rows
TgvMatchRate(rows) ==
    NDiv(SUM({<<r.tv_name, NMul(r.tv_match_rate, r.tv_weight)>> : r \in rows}),
         SUM({<<r.tv_name, r.tv_weight>> : r \in rows}))

tgv_match ==
    LET tj == tgv_joined
    IN  {[employee_id |-> k[1],
          tgv_name |-> k[2],
          tgv_match_rate |->
              TgvMatchRate({r \in tj : r.employee_id = k[1] /\ r.tgv_name = k[2]})] :
            k \in {<<r.employee_id, r.tgv_name>> : r \in tj}}

\* tgv_match JOIN talent_group_weights USING (tgv_name)
final_joined ==
    {[employee_id |-> j[1].employee_id,
      tgv_name |-> j[1].tgv_name,
      tgv_match_rate |-> j[1].tgv_match_rate,
      tgv_weight |-> j[2].tgv_weight] :
        j \in LET t == tgv_match
              IN  {j \in t \X talent_group_weights : j[1].tgv_name = j[2].tgv_name}}

\* SUM(tgv_match_rate * tgv_weight) / SUM(tgv_weight), a mean the query does not
\* compute at this stage
FinalMatchRateNormalized(rows) ==
    NDiv(SUM({<<r.tgv_name, NMul(r.tgv_match_rate, r.tgv_weight)>> : r \in rows}),
         SUM({<<r.tgv_name, r.tgv_weight>> : r \in rows}))

\* SUM(tgv_match_rate * tgv_weight) of one employee's rows
FinalMatchRate(rows) ==
    SUM({<<r.tgv_name, NMul(r.tgv_match_rate, r.tgv_weight)>> : r \in rows})

final_match ==
    LET fj == final_joined
    IN  {[employee_id |-> id,
          final_match_rate |-> FinalMatchRate({r \in fj : r.employee_id = id})] :
            id \in {r.employee_id : r \in fj}}

\* FROM final_match fm JOIN employees e USING (employee_id)
final_select ==
    {[employee_id |-> j[2].employee_id,
      fullname |-> j[2].fullname,
      final_match_rate |-> j[1].final_match_rate] :
        j \in LET fm == final_match
              IN  {j \in fm \X employees : j[1].employee_id = j[2].employee_id}}

\* ORDER BY final_match_rate DESC: row a may stand before row b.  NULL sorts as the
\* largest value, so first in a descending order; the order among rows of equal
\* final_match_rate is whatever the executor produces.
MayPrecede(a, b) ==
    \/ IsNull(a.final_match_rate)
    \/ /\ ~IsNull(b.final_match_rate)
       /\ ~RLess(a.final_match_rate[1], b.final_match_rate[1])

\* every sequence of the rows of S that ORDER BY allows
RECURSIVE Orderings(_)
Orderings(S) ==
    IF S = {} THEN {<<>>}
    ELSE UNION {{<<m>> \o t : t \in Orderings(S \ {m})} :
                   m \in {m \in S : \A r \in S : MayPrecede(m, r)}}

Min(a, b) == IF a < b THEN a ELSE b

\* the results the query may return: ORDER BY ... LIMIT 200
QueryResults == {SubSeq(s, 1, Min(Len(s), LIMIT)) : s \in Orderings(final_select)}

\* run_match_query: the data frame pd.read_sql returns for the query
run_match_query == QueryResults

(***************************************************************************)
(* The sidebar.                                                            *)
(***************************************************************************)

\* load_high_performers(min_rating): SELECT DISTINCT employee_id, fullname of the
\* employees with a performance_yearly row of rating >= min_rating
load_high_performers(min) ==
    {<<e.employee_id, e.fullname>> : e \in
        {e \in employees :
            \E py \in performance_yearly :
                py.employee_id = e.employee_id /\ py.rating >= min}}

\* position_options: {row["name"]: row["position_id"]} over dim_positions in
\* position_id order, so of two positions with one name the later id stays
position_options ==
    [n \in {d.name : d \in dim_positions} |->
        CHOOSE id \in {d.position_id : d \in {d \in dim_positions : d.name = n}} :
            \A d \in dim_positions : d.name = n => d.position_id <= id]

SeqRange(s) == {s[i] : i \in DOMAIN s}
SeqWithout(s, x) == SelectSeq(s, LAMBDA y : y # x)

\* the slider is moved to k: the script runs again, without the button.  The
\* multiselect is a widget of its options: with other options it is a new widget,
\* holding its default, the empty list.
SetMinRating(k) ==
    /\ k \in SliderMin..SliderMax
    /\ k # min_rating
    /\ min_rating' = k
    /\ manual_selected' =
          IF load_high_performers(k) = load_high_performers(min_rating)
          THEN manual_selected ELSE <<>>
    /\ run_button' = FALSE
    /\ result_df' = <<>>
    /\ UNCHANGED <<tables, selected_position_id>>

\* the selectbox is set to "(None)" or to a position's name
SelectPosition(label) ==
    /\ label \in {NULL} \cup {Val(n) : n \in DOMAIN position_options}
    /\ LET id == IF IsNull(label) THEN NULL ELSE Val(position_options[label[1]])
       IN  /\ id # selected_position_id
           /\ selected_position_id' = id
    /\ run_button' = FALSE
    /\ result_df' = <<>>
    /\ UNCHANGED <<tables, min_rating, manual_selected>>

\* a label of the multiselect is picked (it joins the end of the list) or dropped
ToggleManual(label) ==
    /\ label \in load_high_performers(min_rating)
    /\ manual_selected' =
          IF label \in SeqRange(manual_selected)
          THEN SeqWithout(manual_selected, label)
          ELSE Append(manual_selected, label)
    /\ run_button' = FALSE
    /\ result_df' = <<>>
    /\ UNCHANGED <<tables, min_rating, selected_position_id>>

\* the button: result_df = run_match_query(manual_ids, selected_position_id, min_rating)
RunTalentMatch ==
    /\ run_button' = TRUE
    /\ result_df' \in run_match_query
    /\ UNCHANGED <<tables, sidebar>>

(***************************************************************************)
(* Snapshots.  The tables are the application's input; each specification  *)
(* below starts from a bounded family of them.                             *)
(***************************************************************************)
MaxRatingRows == 2

Emp == 1..NEmp
Fullnames == <<"Ani", "Budi", "Citra", "Dewi", "Eka", "Fajar", "Gita", "Hadi">>
Years == {2023, 2024}
RatingValues == {3, 5}

\* the tables that hold, for every key k, the rows of one member of rows[k]
RECURSIVE Snapshots(_)
Snapshots(rows) ==
    IF DOMAIN rows = {} THEN {{}}
    ELSE LET k == CHOOSE k \in DOMAIN rows : TRUE
             rest == Snapshots([j \in DOMAIN rows \ {k} |-> rows[j]])
         IN  {r \cup T : r \in rows[k], T \in rest}

\* employees 1, 3, ... hold position 1 and employees 2, 4, ... position 2
EmployeesTable ==
    {[employee_id |-> e, fullname |-> Fullnames[e], position_id |-> ((e - 1) % 2) + 1] :
        e \in Emp}
PositionsTable ==
    {[position_id |-> 1, name |-> "Analyst"], [position_id |-> 2, name |-> "Manager"]}

\* performance_yearly: at most one rating per employee and year
RatingTables ==
    {T \in SUBSET [employee_id : Emp, year : Years, rating : RatingValues] :
        /\ Cardinality(T) <= MaxRatingRows
        /\ \A a, b \in T : (a.employee_id = b.employee_id /\ a.year = b.year) => a = b}

One == Val(Int2Rat(1))

\* the sidebar's defaults: slider at 5, "(None)", no label picked; nothing run yet
InitSidebar ==
    /\ min_rating = SliderMax
    /\ selected_position_id = NULL
    /\ manual_selected = <<>>
    /\ run_button = FALSE
    /\ result_df = <<>>

\* Cohort resolution: every ratings table, one competency score per employee
InitCohort ==
    /\ employees = EmployeesTable
    /\ dim_positions = PositionsTable
    /\ performance_yearly \in RatingTables
    /\ competencies_yearly =
          {[employee_id |-> e, pillar_code |-> "GDR", year |-> 2024, score |-> Val(20 * e)] :
              e \in Emp}
    /\ profiles_psych = {}
    /\ papi_scores = {}
    /\ talent_variables_mapping =
          {[tv_name |-> "GDR", tgv_name |-> "Competency", tv_weight |-> One]}
    /\ talent_group_weights = {[tgv_name |-> "Competency", tgv_weight |-> One]}
    /\ InitSidebar

Sidebar ==
    \/ \E k \in SliderMin..SliderMax : SetMinRating(k)
    \/ \E label \in {NULL} \cup {Val(d.name) : d \in dim_positions} : SelectPosition(label)
    \/ \E label \in load_high_performers(min_rating) : ToggleManual(label)

NextCohort == Sidebar \/ RunTalentMatch

SpecCohort == InitCohort /\ [][NextCohort]_vars

\* Scoring specifications: employees 1 and 2 are rated 5 and the others 3, so with
\* the sidebar's defaults the benchmark is the fallback {1, 2}
ScoringRatings ==
    {[employee_id |-> e, year |-> 2024, rating |-> IF e <= 2 THEN 5 ELSE 3] : e \in Emp}

\* competencies_yearly of the latest year: per employee and pillar no row or a score
PillarScores == [GDR |-> {40, 60, 75}, SEA |-> {0, 60}]
Pillars == DOMAIN PillarScores
CompetencyTables ==
    Snapshots([k \in Emp \X Pillars |->
        {{}} \cup {{[employee_id |-> k[1], pillar_code |-> k[2], year |-> 2024, score |-> Val(v)]} :
                     v \in PillarScores[k[2]]}])

\* each pillar its own group, group weights that sum to 2
MappingSeparate ==
    [tv |-> {[tv_name |-> "GDR", tgv_name |-> "Competency", tv_weight |-> One],
             [tv_name |-> "SEA", tgv_name |-> "Strategy", tv_weight |-> One]},
     tgv |-> {[tgv_name |-> "Competency", tgv_weight |-> One],
              [tgv_name |-> "Strategy", tgv_weight |-> One]}]
\* both pillars in one group with weights 1 and 3, the group's weight 2
MappingShared ==
    [tv |-> {[tv_name |-> "GDR", tgv_name |-> "Competency", tv_weight |-> One],
             [tv_name |-> "SEA", tgv_name |-> "Competency", tv_weight |-> Val(Int2Rat(3))]},
     tgv |-> {[tgv_name |-> "Competency", tgv_weight |-> Val(Int2Rat(2))]}]

Init ==
    /\ employees = EmployeesTable
    /\ dim_positions = PositionsTable
    /\ performance_yearly = ScoringRatings
    /\ competencies_yearly \in CompetencyTables
    /\ profiles_psych = {}
    /\ papi_scores = {}
    /\ \E m \in {MappingSeparate, MappingShared} :
          /\ talent_variables_mapping = m.tv
          /\ talent_group_weights = m.tgv
    /\ InitSidebar

Next == RunTalentMatch

Spec == Init /\ [][Next]_vars

\* texts of the model: " intj", "ENFP", "d"
Text_intj == <<32, 105, 110, 116, 106>>
Text_ENFP == <<69, 78, 70, 80>>
Text_d == <<100>>

\* nobody is rated 5: with the sidebar's defaults the benchmark is empty
NoHighPerformer ==
    {[employee_id |-> e, year |-> 2024, rating |-> 3] : e \in Emp}

\* profiles_psych: per employee no row, or a row whose iq, gtq and mbti may be NULL
ProfileRows(e) ==
    [employee_id : {e},
     iq : {NULL, Val(100)}, gtq : {NULL, Val(100)},
     tiki : {Val(10)}, faxtor : {Val(10)}, pauli : {Val(10)},
     mbti : {NULL, Val(Text_intj), Val(Text_ENFP)}, disc : {Val(Text_d)}]
ProfileTables == Snapshots([e \in Emp |-> {{}} \cup {{r} : r \in ProfileRows(e)}])

\* iq and gtq in one group with weights 1 and 3, mbti and disc in another; tiki,
\* faxtor and pauli are not mapped
MappingProfile ==
    [tv |-> {[tv_name |-> "iq", tgv_name |-> "Cognitive", tv_weight |-> One],
             [tv_name |-> "gtq", tgv_name |-> "Cognitive", tv_weight |-> Val(Int2Rat(3))],
             [tv_name |-> "mbti", tgv_name |-> "Personality", tv_weight |-> One],
             [tv_name |-> "disc", tgv_name |-> "Personality", tv_weight |-> One]},
     tgv |-> {[tgv_name |-> "Cognitive", tgv_weight |-> One],
              [tgv_name |-> "Personality", tgv_weight |-> One]}]

InitProfile ==
    /\ employees = EmployeesTable
    /\ dim_positions = PositionsTable
    /\ performance_yearly \in {ScoringRatings, NoHighPerformer}
    /\ competencies_yearly = {}
    /\ profiles_psych \in ProfileTables
    /\ papi_scores = {}
    /\ talent_variables_mapping = MappingProfile.tv
    /\ talent_group_weights = MappingProfile.tgv
    /\ InitSidebar

NextProfile == RunTalentMatch

SpecProfile == InitProfile /\ [][NextProfile]_vars

\* papi_scores: per employee and scale no row or a score; Papi_I is reverse-scored,
\* Papi_N is not
ScaleScores == [Papi_I |-> {0, 2, 4, 6}, Papi_N |-> {4}]
Scales == DOMAIN ScaleScores
PapiTables ==
    Snapshots([k \in Emp \X Scales |->
        {{}} \cup {{[employee_id |-> k[1], scale_code |-> k[2], score |-> Val(v)]} :
                     v \in ScaleScores[k[2]]}])

MappingPapi ==
    [tv |-> {[tv_name |-> "Papi_I", tgv_name |-> "Work Style", tv_weight |-> One],
             [tv_name |-> "Papi_N", tgv_name |-> "Work Style", tv_weight |-> One]},
     tgv |-> {[tgv_name |-> "Work Style", tgv_weight |-> One]}]

InitPapi ==
    /\ employees = EmployeesTable
    /\ dim_positions = PositionsTable
    /\ performance_yearly = ScoringRatings
    /\ competencies_yearly = {}
    /\ profiles_psych = {}
    /\ papi_scores \in PapiTables
    /\ talent_variables_mapping = MappingPapi.tv
    /\ talent_group_weights = MappingPapi.tgv
    /\ InitSidebar

NextPapi ==
    \/ \E label \in {NULL} \cup {Val(d.name) : d \in dim_positions} : SelectPosition(label)
    \/ RunTalentMatch

SpecPapi == InitPapi /\ [][NextPapi]_vars

(***************************************************************************)
(* A snapshot that changes between runs: competency scores are written and *)
(* deleted by the systems that own the table.  The model follows a data    *)
(* frame only while the snapshot it was computed from is the current one.  *)
(***************************************************************************)
\* the scores a competency row of a year can hold
DataScores == [y \in Years |-> IF y = 2023 THEN {10, 30} ELSE {30}]

\* INSERT ... ON CONFLICT (employee_id, pillar_code, year) DO UPDATE
WriteCompetency(e, pillar, y, v) ==
    /\ competencies_yearly' =
          {c \in competencies_yearly :
              ~(c.employee_id = e /\ c.pillar_code = pillar /\ c.year = y)}
          \cup {[employee_id |-> e, pillar_code |-> pillar, year |-> y, score |-> Val(v)]}
    /\ competencies_yearly' # competencies_yearly
    /\ run_button' = FALSE
    /\ result_df' = <<>>
    /\ UNCHANGED <<employees, dim_positions, performance_yearly, profiles_psych, papi_scores,
                   talent_variables_mapping, talent_group_weights, sidebar>>

\* DELETE FROM competencies_yearly WHERE (employee_id, pillar_code, year) = (e, pillar, y)
DeleteCompetency(e, pillar, y) ==
    /\ \E c \in competencies_yearly :
          c.employee_id = e /\ c.pillar_code = pillar /\ c.year = y
    /\ competencies_yearly' =
          {c \in competencies_yearly :
              ~(c.employee_id = e /\ c.pillar_code = pillar /\ c.year = y)}
    /\ run_button' = FALSE
    /\ result_df' = <<>>
    /\ UNCHANGED <<employees, dim_positions, performance_yearly, profiles_psych, papi_scores,
                   talent_variables_mapping, talent_group_weights, sidebar>>

DataCompetencyTables ==
    Snapshots([k \in Emp \X Years |->
        {{}} \cup {{[employee_id |-> k[1], pillar_code |-> "GDR", year |-> k[2], score |-> Val(v)]} :
                     v \in DataScores[k[2]]}])

\* employees 1, 2 and 3 hold the rating 5 in both years, every other employee 3
DataRatings ==
    {[employee_id |-> e, year |-> y, rating |-> IF e <= 3 THEN 5 ELSE 3] : e \in Emp, y \in Years}

\* every employee has a profile and a Papi_I score; employee e reads 90 + 10 * e on
\* iq and 2 * e on Papi_I
DataProfiles ==
    {[employee_id |-> e, iq |-> Val(90 + 10 * e), gtq |-> NULL, tiki |-> NULL,
      faxtor |-> NULL, pauli |-> NULL, mbti |-> Val(Text_ENFP), disc |-> NULL] : e \in Emp}
DataPapi == {[employee_id |-> e, scale_code |-> "Papi_I", score |-> Val(2 * e)] : e \in Emp}

MappingData ==
    [tv |-> {[tv_name |-> "GDR", tgv_name |-> "Competency", tv_weight |-> One],
             [tv_name |-> "iq", tgv_name |-> "Cognitive", tv_weight |-> One],
             [tv_name |-> "Papi_I", tgv_name |-> "Work Style", tv_weight |-> One]},
     tgv |-> {[tgv_name |-> "Competency", tgv_weight |-> One],
              [tgv_name |-> "Cognitive", tgv_weight |-> One],
              [tgv_name |-> "Work Style", tgv_weight |-> One]}]

InitData ==
    /\ employees = EmployeesTable
    /\ dim_positions = PositionsTable
    /\ performance_yearly = DataRatings
    /\ competencies_yearly \in DataCompetencyTables
    /\ profiles_psych = DataProfiles
    /\ papi_scores = DataPapi
    /\ talent_variables_mapping = MappingData.tv
    /\ talent_group_weights = MappingData.tgv
    /\ InitSidebar

NextData ==
    \/ \E label \in {NULL} \cup {Val(d.name) : d \in dim_positions} : SelectPosition(label)
    \/ \E e \in Emp, y \in Years : \E v \in DataScores[y] : WriteCompetency(e, "GDR", y, v)
    \/ \E e \in Emp, y \in Years : DeleteCompetency(e, "GDR", y)
    \/ RunTalentMatch

SpecData == InitData /\ [][NextData]_vars

(***************************************************************************)
(* What the claims speak of, stated from the tables and from the rows the  *)
(* query joins, not from the query's own aggregates.  The operators take   *)
(* the relation they read as an argument: tj is tgv_joined (a match rate   *)
(* row with its variable's group and weight) and tm is tgv_match.          *)
(***************************************************************************)

\* the sum of v[x] * w[x] over x in S, for rational v and w
RECURSIVE WeightedSum(_, _, _)
WeightedSum(S, v, w) ==
    IF S = {} THEN Int2Rat(0)
    ELSE LET x == CHOOSE x \in S : TRUE
         IN  RAdd(RMul(v[x], w[x]), WeightedSum(S \ {x}, v, w))

\* the variables of group g for which employee e has a match rate row, and those
\* among them whose match rate is defined
VariablesOf(tj, e, g) ==
    {r.tv_name : r \in {r \in tj : r.employee_id = e /\ r.tgv_name = g}}
DefinedVariablesOf(tj, e, g) ==
    {r.tv_name : r \in {r \in tj : r.employee_id = e /\ r.tgv_name = g
                                     /\ ~IsNull(r.tv_match_rate)}}
\* e's defined match rates, by variable
MatchOf(tj, e) ==
    [tv \in {r.tv_name : r \in {r \in tj : r.employee_id = e /\ ~IsNull(r.tv_match_rate)}} |->
        (CHOOSE r \in tj : r.employee_id = e /\ r.tv_name = tv).tv_match_rate[1]]
WeightOf ==
    [tv \in {m.tv_name : m \in talent_variables_mapping} |->
        (CHOOSE m \in talent_variables_mapping : m.tv_name = tv).tv_weight[1]]
Unit(S) == [x \in S |-> Int2Rat(1)]

\* the weighted mean of e's match rates over the variables V (V not empty)
WeightedMean(tj, e, V) ==
    RDiv(WeightedSum(V, MatchOf(tj, e), WeightOf), WeightedSum(V, Unit(V), WeightOf))

\* e's match rate of group g as the query computed it (NULL also when it has no row)
GroupMatchOf(tm, e, g) ==
    LET rows == {t \in tm : t.employee_id = e /\ t.tgv_name = g}
    IN  IF rows = {} THEN NULL ELSE (CHOOSE t \in rows : TRUE).tgv_match_rate

\* the groups with a configured weight, and those for which e has a defined group match
Groups == {g.tgv_name : g \in talent_group_weights}
DefinedGroupsOf(tm, e) == {g \in Groups : ~IsNull(GroupMatchOf(tm, e, g))}
GroupRateOf(tm, e) == [g \in DefinedGroupsOf(tm, e) |-> GroupMatchOf(tm, e, g)[1]]
GroupWeightOf ==
    [g \in Groups |-> (CHOOSE r \in talent_group_weights : r.tgv_name = g).tgv_weight[1]]

\* the rows of the data frame for employee e, and the score of the first of them
RowsOf(e) == {i \in DOMAIN result_df : result_df[i].employee_id = e}
ScoreOf(e) == result_df[CHOOSE i \in RowsOf(e) : TRUE].final_match_rate

\* the end-to-end scenario: the benchmark is employees 1 and 2, who read 40 and 60
\* on GDR; employee 3 reads 75 on GDR and nothing else; GDR is alone in its group
\* with weight 1, and the group's weight is 1
Scenario150 ==
    /\ talent_variables_mapping = MappingSeparate.tv
    /\ {<<c.pillar_code, c.score[1]>> : c \in {c \in competencies_yearly : c.employee_id = 3}}
          = {<<"GDR", 75>>}
    /\ {c.score[1] : c \in {c \in competencies_yearly :
                              c.pillar_code = "GDR" /\ c.employee_id \in {1, 2}}} = {40, 60}
    /\ final_bench = {1, 2}

C1_ZeroBaselineLeftOut ==
    run_button =>
    LET a == all_tv
        tj == tgv_joined
        tm == tgv_match
        zero == {r \in tj : \E x \in a : /\ x.employee_id = r.employee_id
                                         /\ x.tv_name = r.tv_name
                                         /\ x.baseline_score = Val(Int2Rat(0))}
    IN  \A r \in zero :
            GroupMatchOf(tm, r.employee_id, r.tgv_name) =
                IF DefinedVariablesOf(tj, r.employee_id, r.tgv_name) = {} THEN NULL
                ELSE Val(WeightedMean(tj, r.employee_id,
                                      DefinedVariablesOf(tj, r.employee_id, r.tgv_name)))

\* C6: every row of the data frame has a defined final score.
C6_EveryRowScored ==
    run_button => \A i \in DOMAIN result_df : ~IsNull(result_df[i].final_match_rate)

\* C2: the data frame is in descending order of final score, rows of equal score in
\* ascending order of employee id, and holds at most LIMIT rows.
C2_RankedByScoreThenId ==
    run_button =>
        /\ Len(result_df) <= LIMIT
        /\ \A i, j \in DOMAIN result_df :
              (i < j /\ ~IsNull(result_df[i].final_match_rate)
                     /\ ~IsNull(result_df[j].final_match_rate)) =>
                  \/ RLess(result_df[j].final_match_rate[1], result_df[i].final_match_rate[1])
                  \/ /\ result_df[i].final_match_rate = result_df[j].final_match_rate
                     /\ result_df[i].employee_id < result_df[j].employee_id

(***************************************************************************)
(* Cohort resolution (checked under SpecCohort).                           *)
(***************************************************************************)

\* the employees of the selected position with a rating row of at least min_rating
RoleQualifiers ==
    {e.employee_id : e \in
        {e \in employees :
            /\ selected_position_id = Val(e.position_id)
            /\ \E py \in performance_yearly :
                  py.employee_id = e.employee_id /\ py.rating >= min_rating}}
\* the employees with a rating row of at least min_rating, organization-wide
GlobalQualifiers ==
    {py.employee_id : py \in {py \in performance_yearly : py.rating >= min_rating}}
PickedIds == {manual_selected[i][1] : i \in DOMAIN manual_selected}

\* C3: when a label is picked, or the selected position has an employee meeting
\* min_rating, the benchmark is exactly the picked employees and those of the position
\* meeting min_rating: nobody is in it for meeting min_rating elsewhere only.
C3_ExplicitSelectionWins ==
    (PickedIds # {} \/ RoleQualifiers # {}) =>
        /\ final_bench = PickedIds \cup RoleQualifiers
        /\ \A e \in GlobalQualifiers \ (PickedIds \cup RoleQualifiers) : e \notin final_bench

\* C3 witness: a run with an explicit selection that leaves out an employee who
\* meets min_rating
C3_Witness ==
    /\ run_button
    /\ PickedIds \cup RoleQualifiers # {}
    /\ GlobalQualifiers \ (PickedIds \cup RoleQualifiers) # {}
    /\ final_bench = PickedIds \cup RoleQualifiers

\* the rating of an employee's latest year
LatestRatingRows ==
    {py \in performance_yearly :
        \A other \in performance_yearly :
            other.employee_id = py.employee_id => other.year <= py.year}
LatestQualifiers == {py.employee_id : py \in {py \in LatestRatingRows : py.rating >= min_rating}}
LatestRoleQualifiers ==
    {e.employee_id : e \in
        {e \in employees :
            /\ selected_position_id = Val(e.position_id)
            /\ e.employee_id \in LatestQualifiers}}

\* C4: with no label picked and no position selected, or a position none of whose
\* employees meets min_rating, the benchmark of a run is exactly the employees whose
\* latest rating is at least min_rating, organization-wide.
C4_FallbackIsLatestRating ==
    (/\ run_button
     /\ PickedIds = {}
     /\ (IsNull(selected_position_id) \/ LatestRoleQualifiers = {})) =>
        final_bench = LatestQualifiers

(***************************************************************************)
(* Profiles (checked under SpecProfile).                                   *)
(***************************************************************************)

\* C5: when the benchmark of a run is empty, no baseline is defined, the two
\* categorical ones included, and the data frame is empty.
C5_EmptyCohortEmptyFrame ==
    (run_button /\ final_bench = {}) =>
        /\ \A b \in baseline_numeric \cup baseline_papi : IsNull(b.baseline_score)
        /\ \A b \in baseline_cat : IsNull(b.baseline_value)
        /\ result_df = <<>>

\* the profile columns of employee e that hold NULL
NullColumnsOf(e) ==
    {col \in PsychColumns \cup CatColumns :
        \E p \in profiles_psych : p.employee_id = e /\ IsNull(p[col])}

\* C10: after a run with a benchmark that is not empty, an employee has no match
\* rate row for a profile column that holds NULL, and each group match of the
\* employee is the weighted mean over the variables with a stored value and a
\* defined match rate (undefined when there is none).
C10_NullValueIsNoReading ==
    (run_button /\ final_bench # {}) =>
        LET a == all_tv
            tj == tgv_joined
            tm == tgv_match
        IN  \A e \in {p.employee_id : p \in profiles_psych} :
                /\ \A r \in a : r.employee_id = e => r.tv_name \notin NullColumnsOf(e)
                /\ \A g \in Groups :
                      LET V == DefinedVariablesOf(tj, e, g) \ NullColumnsOf(e)
                      IN  GroupMatchOf(tm, e, g) =
                              IF V = {} THEN NULL ELSE Val(WeightedMean(tj, e, V))

(***************************************************************************)
(* Reverse scoring (checked under SpecPapi).                               *)
(***************************************************************************)

\* the match rate rows of the reverse-scored scales whose baseline is defined and
\* not 0
ReverseRows ==
    {r \in papi_tv :
        /\ r.tv_name \in reverse_list
        /\ ~IsNull(r.baseline_score)
        /\ r.baseline_score # Val(Int2Rat(0))}
\* rows a and b of one scale read b - d and b + d for the baseline b
Mirrored(a, b) ==
    /\ a.tv_name = b.tv_name
    /\ RAdd(a.user_score[1], b.user_score[1]) = RMul(Int2Rat(2), a.baseline_score[1])

\* C7 as claimed: readings at equal distances below and above the baseline of a
\* reverse-scored scale have equal match rates.
C7_ReverseSymmetric ==
    run_button =>
        LET rows == ReverseRows
        IN  \A a, b \in rows : Mirrored(a, b) => a.tv_match_rate = b.tv_match_rate

\* C7 as amended: on a reverse-scored scale with baseline b # 0 a reading b - d has
\* the match rate 100 * (b + d) / b, the rate the forward formula gives the reading
\* b + d; so the rates of b - d and b + d add up to 200 and are equal only for d = 0.
C7_ReverseMirrors ==
    run_button =>
        LET rows == ReverseRows
        IN  /\ \A a \in rows :
                  a.tv_match_rate =
                      Val(RDiv(RMul(Int2Rat(100),
                                    RSub(RMul(Int2Rat(2), a.baseline_score[1]), a.user_score[1])),
                               a.baseline_score[1]))
            /\ \A a, b \in rows :
                  Mirrored(a, b) =>
                      /\ RAdd(a.tv_match_rate[1], b.tv_match_rate[1]) = Int2Rat(200)
                      /\ (a.tv_match_rate = b.tv_match_rate <=> a.user_score = b.user_score)

\* C7 witness: a run in which two employees read 2 and 6 on Papi_I around the
\* baseline 4 and get 150 and 50
C7_Witness ==
    /\ run_button
    /\ \E a, b \in ReverseRows :
          /\ Mirrored(a, b)
          /\ a.baseline_score = Val(Int2Rat(4))
          /\ a.user_score = Val(Int2Rat(2)) /\ a.tv_match_rate = Val(Int2Rat(150))
          /\ b.user_score = Val(Int2Rat(6)) /\ b.tv_match_rate = Val(Int2Rat(50))

(***************************************************************************)
(* Baselines (checked under SpecData).                                     *)
(***************************************************************************)

\* the median of the values of T, a non-empty set of <<key, value>>: the middle one
\* of an odd number, the mean of the two middle ones of an even number
Median(T) ==
    LET s == SortedValues(T)
        n == Len(s)
    IN  IF n % 2 = 1 THEN s[(n + 1) \div 2]
        ELSE RDiv(RAdd(s[n \div 2], s[(n \div 2) + 1]), Int2Rat(2))

LatestYear == CHOOSE y \in {c.year : c \in competencies_yearly} :
                  \A c \in competencies_yearly : c.year <= y
\* the readings of the benchmark employees fb, as <<employee, value>>: of a pillar
\* (in the latest year of the table), of a psychometric column, of a scale
CohortPillarReadings(fb, pillar) ==
    {<<c.employee_id, Val(Int2Rat(c.score[1]))>> :
        c \in {c \in competencies_yearly :
                 /\ c.pillar_code = pillar /\ c.year = LatestYear
                 /\ c.employee_id \in fb /\ ~IsNull(c.score)}}
CohortColumnReadings(fb, col) ==
    {<<p.employee_id, Val(Int2Rat(p[col][1]))>> :
        p \in {p \in profiles_psych : p.employee_id \in fb /\ ~IsNull(p[col])}}
CohortScaleReadings(fb, scale) ==
    {<<ps.employee_id, Val(Int2Rat(ps.score[1]))>> :
        ps \in {ps \in papi_scores :
                  ps.scale_code = scale /\ ps.employee_id \in fb /\ ~IsNull(ps.score)}}

\* the baseline the query holds for variable tv in relation B: NULL also when B has
\* no row for it
BaselineOf(B, tv) ==
    LET rows == {b \in B : b.tv_name = tv}
    IN  IF rows = {} THEN NULL ELSE (CHOOSE b \in rows : TRUE).baseline_score
IsMedianOf(baseline, T) ==
    baseline = IF T = {} THEN NULL ELSE Val(Median(T))

\* every numeric baseline is the median of the benchmark employees' readings
BaselinesAreCohortMedians ==
    LET fb == final_bench
        bn == baseline_numeric
        bp == baseline_papi
    IN  /\ \A pillar \in {c.pillar_code : c \in competencies_yearly} :
              IsMedianOf(BaselineOf(bn, pillar), CohortPillarReadings(fb, pillar))
        /\ \A col \in PsychColumns :
              IsMedianOf(BaselineOf(bn, col), CohortColumnReadings(fb, col))
        /\ \A scale \in {ps.scale_code : ps \in papi_scores} :
              IsMedianOf(BaselineOf(bp, scale), CohortScaleReadings(fb, scale))
        /\ \A b \in bn : b.tv_name \in {c.pillar_code : c \in competencies_yearly} \cup PsychColumns
        /\ \A b \in bp : b.tv_name \in {ps.scale_code : ps \in papi_scores}

\* a step that changes the competency table and leaves as they are the tables and
\* the selection the benchmark is resolved from (so the benchmark too) and every
\* competency row of a benchmark employee
OutsideWrite ==
    /\ competencies_yearly' # competencies_yearly
    /\ UNCHANGED <<employees, performance_yearly, sidebar>>
    /\ LET fb == final_bench
       IN  {c \in competencies_yearly' : c.employee_id \in fb}
              = {c \in competencies_yearly : c.employee_id \in fb}
\* the baselines the query computes from the tables of the next state, for the
\* benchmark of this state, are those of this state
BaselinesUnchanged ==
    LET fb == final_bench
    IN  /\ BaselineNumeric(BaselineNumericX(competencies_yearly', profiles_psych', fb,
                                            MaxYear(competencies_yearly')))
              = baseline_numeric
        /\ BaselinePapi(papi_scores', fb) = baseline_papi

\* C8 as claimed (its second half): a change to the readings of employees outside
\* the benchmark changes no baseline.
C8_OutsideWritesChangeNothing == [][OutsideWrite => BaselinesUnchanged]_vars

\* C8 as amended: every numeric baseline is the exact median of the benchmark
\* employees' readings of the variable (for a pillar, their readings of the table's
\* latest year), and a change to the readings of employees outside the benchmark
\* changes no baseline unless it changes the latest year of the competency table.
C8_CohortMedianUnderSameLatestYear ==
    /\ []BaselinesAreCohortMedians
    /\ [][(OutsideWrite /\ MaxYear(competencies_yearly') = latest) => BaselinesUnchanged]_vars

\* C8 witness: a run whose benchmark employees 1 and 3 read 10 and 30 on GDR in the
\* latest year (baseline 20), while employee 2, outside the benchmark, reads 30
C8_Witness ==
    /\ run_button
    /\ final_bench = {1, 3}
    /\ CohortPillarReadings({1, 3}, "GDR") = {<<1, Val(Int2Rat(10))>>, <<3, Val(Int2Rat(30))>>}
    /\ CohortPillarReadings({2}, "GDR") = {<<2, Val(Int2Rat(30))>>}
    /\ BaselineOf(baseline_numeric, "GDR") = Val(Int2Rat(20))

====
